---- MODULE Spec2Model ----
(***************************************************************************)
(* Model of the signal-processing core of hydrogeosines                    *)
(* (src/hydrogeosines/ext/hgs_analysis.py):                                *)
(*   Analysis.regress_deconv   - lagged-regression deconvolution           *)
(*   Analysis.harmonic_lsqr    - harmonic least squares                    *)
(*   Analysis.lin_window_ovrlp - windowed overlapping linear detrend       *)
(*                                                                         *)
(* and of the exporter of its results                                      *)
(* (src/hydrogeosines/view/ext/export.py):                                 *)
(*   Export.export_GW_correct  - tables of the corrected series and bundle *)
(*                                                                         *)
(* The three functions are pure.  A behaviour is one call: Init draws the  *)
(* function and its arguments from bounded sets, the action applies the    *)
(* function and stores what it returned or raised in ret.  What            *)
(* regress_deconv returned may then be handed to the exporter.             *)
(*                                                                         *)
(* Arithmetic is exact.  Real numbers are rationals <<num, den>> in lowest *)
(* terms with den > 0.  Times are held in ticks of half a micro-day        *)
(* (TicksPerDay ticks = 1 day) so that rounding to 6 decimals of a day is  *)
(* a real operation.  The solvers of scipy/numpy (curve_fit, svdvals,      *)
(* lstsq) are outside the repository: what they return is chosen           *)
(* nondeterministically from bounded families, subject to the shape rules  *)
(* of the libraries (argument checks, broadcasting, empty residuals).      *)
(***************************************************************************)
EXTENDS Integers, Sequences, FiniteSets, TLC

VARIABLES op, args, ret

vars == <<op, args, ret>>

(***************************************************************************)
(* Bounds of the model.                                                    *)
(***************************************************************************)
MaxLen == 6
MaxSeed == 1
MaxCoefSeed == 2

(***************************************************************************)
(* Units.                                                                  *)
(***************************************************************************)
\* np.around(x, 6): a day has 10^6 rounding units, a rounding unit two ticks
RoundUnitsPerDay == 1000000

TicksPerDay == 2 * RoundUnitsPerDay

\* the condition number above which the fits warn
CondLimit == 1000000

(***************************************************************************)
(* Exact rational arithmetic.                                              *)
(***************************************************************************)
Abs(x) == IF x < 0 THEN -x ELSE x

Max(a, b) == IF a >= b THEN a ELSE b

Min(a, b) == IF a <= b THEN a ELSE b

RECURSIVE GCD(_, _)
GCD(a, b) == IF b = 0 THEN a ELSE GCD(b, a % b)

Norm(n, d) ==
  IF n = 0 THEN <<0, 1>>
  ELSE LET s == IF d < 0 THEN -1 ELSE 1
           g == GCD(Abs(n), Abs(d))
       IN <<(s * n) \div g, (s * d) \div g>>

RInt(i) == <<i, 1>>

RNeg(a) == <<-a[1], a[2]>>

RAdd(a, b) ==
  LET g == GCD(a[2], b[2])
  IN Norm(a[1] * (b[2] \div g) + b[1] * (a[2] \div g), (a[2] \div g) * b[2])

RSub(a, b) == RAdd(a, RNeg(b))

RMul(a, b) ==
  IF a[1] = 0 \/ b[1] = 0 THEN <<0, 1>>
  ELSE LET g1 == GCD(Abs(a[1]), b[2])
           g2 == GCD(Abs(b[1]), a[2])
       IN <<(a[1] \div g1) * (b[1] \div g2), (a[2] \div g2) * (b[2] \div g1)>>

RDiv(a, b) == RMul(a, IF b[1] < 0 THEN <<-b[2], -b[1]>> ELSE <<b[2], b[1]>>)

RLess(a, b) == RSub(a, b)[1] < 0

RECURSIVE RSum(_)
RSum(s) == IF s = <<>> THEN <<0, 1>> ELSE RAdd(s[1], RSum(Tail(s)))

RECURSIVE ISum(_)
ISum(s) == IF s = <<>> THEN 0 ELSE s[1] + ISum(Tail(s))

\* round half to even of n/d, d > 0 (numpy rint)
RoundHalfEven(n, d) ==
  LET q == n \div d
      r == n - q * d
  IN IF 2 * r < d THEN q
     ELSE IF 2 * r > d THEN q + 1
     ELSE IF q % 2 = 0 THEN q ELSE q + 1

(***************************************************************************)
(* numpy helpers.                                                          *)
(***************************************************************************)
\* np.diff on integers
diff(s) == [i \in 1..(Len(s) - 1) |-> s[i + 1] - s[i]]

\* np.cumsum on rationals
cumsum(s) == [i \in 1..Len(s) |-> RSum(SubSeq(s, 1, i))]

\* np.cumsum on integers
icumsum(s) == [i \in 1..Len(s) |-> ISum(SubSeq(s, 1, i))]

\* np.dot(M, w): M a sequence of rows of rationals, w integers
dot(M, w) == [r \in 1..Len(M) |-> RSum([k \in 1..Len(w) |-> RMul(M[r][k], RInt(w[k]))])]

\* np.nanmean of a rational vector without missing values
mean(s) == RDiv(RSum(s), RInt(Len(s)))

SeqMin(s) == CHOOSE m \in {s[i] : i \in 1..Len(s)} : \A i \in 1..Len(s) : m <= s[i]

SeqMax(s) == CHOOSE m \in {s[i] : i \in 1..Len(s)} : \A i \in 1..Len(s) : m >= s[i]

\* np.around(x, 6) of a time difference of d ticks, in micro-days
Around6(d) == RoundHalfEven(d, TicksPerDay \div RoundUnitsPerDay)

\* numpy broadcasting of two 1-d shapes
Broadcastable(m, n) == m = n \/ m = 1 \/ n = 1

BroadcastLen(m, n) == IF m = 1 THEN n ELSE m

\* cos and sin of 2*pi*f*t, f in cycles per day (rational), t in ticks; the
\* phase is taken to the nearest eighth of a turn, which is exact on the
\* sample grids of the model and off by less than 1e-5 for sub-micro-day
\* jitter.  The value at an odd eighth, sqrt(2)/2, is irrational: it is held
\* as the convergent 29/41 of its continued fraction
RootHalf == <<29, 41>>

EighthTurns(f, t) == RoundHalfEven(8 * f[1] * t, f[2] * TicksPerDay) % 8

Cos(f, t) ==
  LET q == EighthTurns(f, t)
  IN CASE q = 0 -> <<1, 1>>
       [] q \in {1, 7} -> RootHalf
       [] q \in {2, 6} -> <<0, 1>>
       [] q \in {3, 5} -> RNeg(RootHalf)
       [] q = 4 -> <<-1, 1>>

Sin(f, t) ==
  LET q == EighthTurns(f, t)
  IN CASE q \in {0, 4} -> <<0, 1>>
       [] q \in {1, 3} -> RootHalf
       [] q = 2 -> <<1, 1>>
       [] q \in {5, 7} -> RNeg(RootHalf)
       [] q = 6 -> <<-1, 1>>

(***************************************************************************)
(* Analysis.regress_deconv                                                 *)
(***************************************************************************)
\* an omitted series argument (ET=None); no call passes an empty series
None == <<>>

\* what the call has produced so far; fields keep their initial value until
\* the code reaches the statement that sets them
NoResult ==
  [outcome |-> "pending", et |-> FALSE, et_method |-> "None",
   Z |-> <<>>, cols |-> <<>>, X |-> <<>>, c |-> <<>>, covar |-> <<>>,
   sgl |-> <<>>, warned |-> FALSE, dWLc |-> <<>>, WLc |-> <<>>, params |-> <<>>]

Raise(r, e) == [r EXCEPT !.outcome = e]

\* the resolution with an omitted mode always read as 'hals'
ResolveEt_DefaultHals(ET, et_method) ==
  IF et_method = "None"
  THEN [et |-> ET # None, et_method |-> "hals"]
  ELSE [et |-> TRUE, et_method |-> et_method]

\* lines 514-517: tides are dropped only when both ET and et_method are None
ResolveEt(ET, et_method) ==
  IF ET = None /\ et_method = "None"
  THEN [et |-> FALSE, et_method |-> "hals"]
  ELSE [et |-> TRUE, et_method |-> et_method]

\* the check with the steps rounded to whole days
IsIrregular_Coarse(tf) ==
  LET tmp == diff(tf)
  IN RoundHalfEven(SeqMin(tmp), TicksPerDay) # RoundHalfEven(SeqMax(tmp), TicksPerDay)

\* lines 521-522
IsIrregular(tf) ==
  LET tmp == diff(tf)
  IN Around6(SeqMin(tmp)) # Around6(SeqMax(tmp))

\* line 524: Python chains the comparison, a != b != c is (a != b) and (b != c)
LengthMismatch(tf, GW, BP) == Len(tf) # Len(GW) /\ Len(GW) # Len(BP)

\* dt = t[1] - t[0], in days
Dt(tf) == Norm(tf[2] - tf[1], TicksPerDay)

\* spd = int(np.round(1/dt))
Spd(tf) == RoundHalfEven(TicksPerDay, tf[2] - tf[1])

\* the lag count with one lagged step kept at the least
Nlag_AtLeastOne(lag_h, spd) == Max(1, (lag_h * spd) \div 24)

\* int((lag_h/24)*spd), lag_h >= 0
Nlag(lag_h, spd) == (lag_h * spd) \div 24

\* np.diff(S)/dt
Deriv(S, dt) == [k \in 1..(Len(S) - 1) |-> RDiv(RInt(S[k + 1] - S[k]), dt)]

\* the lag matrix: column i (lag j = i-1) holds sign*d[k] at row j+k
LagMatrix(d, n, nm, sign) ==
  [r \in 1..n |-> [i \in 1..nm |->
     IF r - (i - 1) >= 1 THEN RMul(RInt(sign), d[r - (i - 1)]) ELSE <<0, 1>>]]

LagCols(kind, nm) == [i \in 1..nm |-> [kind |-> kind, idx |-> i - 1]]

\* u1 (cos) or u2 (sin): row r is the basis function at t[r], column i at fqs[i]
HarmonicMatrix(kind, fqs, tf, n) ==
  [r \in 1..n |-> [i \in 1..Len(fqs) |->
     IF kind = "cos" THEN Cos(fqs[i], tf[r]) ELSE Sin(fqs[i], tf[r])]]

HarmonicCols(kind, fqs) == [i \in 1..Len(fqs) |-> [kind |-> kind, idx |-> i - 1]]

\* np.hstack of two matrices with the same number of rows
hstack(A, B) == [r \in 1..Len(A) |-> A[r] \o B[r]]

Ones(n) == [r \in 1..n |-> <<<<1, 1>>>>]

\* scipy curve_fit(f, t, dWL, p0) with f(x, *c) = Z@c: argument checks of
\* curve_fit and leastsq; the residual Z@c - dWL is formed by broadcasting
CurveFitError(nrows, p, ysize) ==
  IF ysize = 0 THEN "ValueError"
  ELSE IF ysize # 1 /\ p > ysize THEN "TypeError"
  ELSE IF ~Broadcastable(nrows, ysize) THEN "ValueError"
  ELSE IF p > BroadcastLen(nrows, ysize) THEN "TypeError"
  ELSE "ok"

\* the fitted coefficients and their covariance: one member of a bounded family
FitCoef(seed, p) == [i \in 1..p |-> ((seed * i * i + 3 * i + seed) % 7) - 3]

FitCovar(seed, p) ==
  [i \in 1..p |-> [j \in 1..p |->
     IF i = j THEN 3 + ((seed + i) % 4)
     ELSE ((seed + Min(i, j) + 2 * Max(i, j)) % 3) - 1]]

\* exact rank of a matrix of rationals, by elimination on the first column
RECURSIVE Rank(_)
Rank(M) ==
  IF M = <<>> \/ M[1] = <<>> THEN 0
  ELSE LET piv == {r \in 1..Len(M) : M[r][1][1] # 0}
       IN IF piv = {} THEN Rank([r \in 1..Len(M) |-> Tail(M[r])])
          ELSE LET pr == CHOOSE r \in piv : \A q \in piv : r <= q
                   rest == [k \in 1..(Len(M) - 1) |->
                              LET row == M[IF k < pr THEN k ELSE k + 1]
                                  fac == RDiv(row[1], M[pr][1])
                              IN [j \in 1..(Len(row) - 1) |->
                                    RSub(row[j + 1], RMul(fac, M[pr][j + 1]))]]
               IN 1 + Rank(rest)

\* svdvals(Z) as <<largest, smallest>>, up to a common factor: the smallest
\* singular value is zero exactly when Z is rank deficient, and a matrix with
\* one row or one column has a single singular value; otherwise the pair is
\* one of the bounded family
SingularValues(pick, Z) ==
  LET k == Min(Len(Z), Len(Z[1]))
  IN IF Rank(Z) < k THEN <<1, 0>>
     ELSE IF k = 1 THEN <<1, 1>>
     ELSE pick

\* condnum > 1e6 with condnum = max/min; a zero minimum gives inf
IllConditioned(sgl) == sgl[2] = 0 \/ sgl[1] > CondLimit * sgl[2]

\* the correction with the coefficients c[0:nc-1], intercept included
Correction_FromIntercept(X, c, dt) ==
  LET prod == dot(X, SubSeq(c, 1, Len(c) - 1))
      cs == cumsum(prod)
  IN [i \in 1..Len(cs) |-> RMul(dt, cs[i])]

\* dt*np.cumsum(np.dot(X, c[1:nc]))
Correction(X, c, dt) ==
  LET prod == dot(X, SubSeq(c, 2, Len(c)))
      cs == cumsum(prod)
  IN [i \in 1..Len(cs) |-> RMul(dt, cs[i])]

\* GW - np.concatenate([[0], dWLc])
Subtract(GW, dWLc) ==
  LET pad == <<<<0, 1>>>> \o dWLc
  IN [i \in 1..Len(GW) |-> RSub(RInt(GW[i]), pad[i])]

\* the shift applied with the wrong sign
Recenter_Minus(GW, WLc) ==
  LET shift == RSub(mean([i \in 1..Len(GW) |-> RInt(GW[i])]), mean(WLc))
  IN [i \in 1..Len(WLc) |-> RSub(WLc[i], shift)]

\* WLc += (np.nanmean(GW) - np.nanmean(WLc))
Recenter(GW, WLc) ==
  LET shift == RSub(mean([i \in 1..Len(GW) |-> RInt(GW[i])]), mean(WLc))
  IN [i \in 1..Len(WLc) |-> RAdd(WLc[i], shift)]

\* np.linspace(0, lag_h, nlag + 1, endpoint=True), in hours
Linspace(lag_h, nlag) ==
  [k \in 1..(nlag + 1) |-> IF nlag = 0 THEN <<0, 1>> ELSE Norm((k - 1) * lag_h, nlag)]

\* covar[a:b, a:b] for the 0-based slice a:b, as a 1-based matrix
SubBlock(covar, a, b) == [i \in 1..(b - a) |-> [j \in 1..(b - a) |-> covar[a + i][a + j]]]

\* c[a:b] for the 0-based slice a:b
Slice(c, a, b) == [i \in 1..(b - a) |-> c[a + i]]

Diagonal(M) == [i \in 1..Len(M) |-> M[i][i]]

\* np.sum(np.tril(M, -1))
SumTrilStrict(M) ==
  ISum([i \in 1..Len(M) |-> ISum([j \in 1..Len(M) |-> IF j < i THEN M[i][j] ELSE 0])])

\* the propagation with the covariances counted once
CumVar_Once(block, nm) ==
  [i \in 1..nm |->
     LET sub == SubBlock(block, 0, i)
     IN ISum(Diagonal(sub)) + SumTrilStrict(sub)]

\* cbrf_var[i] = np.sum(diag) + 2*np.sum(triaglow) over block[0:i+1, 0:i+1]
CumVar(block, nm) ==
  [i \in 1..nm |->
     LET sub == SubBlock(block, 0, i)
     IN ISum(Diagonal(sub)) + 2 * SumTrilStrict(sub)]

\* a standard deviation is kept as the variance it is the square root of
Sqrt(var) == [x \in 1..Len(var) |-> <<"sqrt", var[x]>>]

\* the response with the coefficients taken one position early
LagResponse_Shifted(c, covar, a, b, lag_t) ==
  LET irf == Slice(c, a - 1, b - 1)
      cov == SubBlock(covar, a, b)
      var == Diagonal(cov)
  IN [lag |-> lag_t, irf |-> irf, irf_stdev |-> Sqrt(var),
      crf |-> icumsum(irf), crf_stdev |-> Sqrt(CumVar(cov, b - a))]

\* the lag-domain response of the driver whose coefficients are c[a:b]
LagResponse(c, covar, a, b, lag_t) ==
  LET irf == Slice(c, a, b)
      cov == SubBlock(covar, a, b)
      var == Diagonal(cov)
  IN [lag |-> lag_t, irf |-> irf, irf_stdev |-> Sqrt(var),
      crf |-> icumsum(irf), crf_stdev |-> Sqrt(CumVar(cov, b - a))]

\* params of mode 'hals' (lines 616-625): the tide entry pairs c[k] with c[NP+k]
HalsParams(c, covar, nm, NP, et, fqs, lag_t) ==
  LET brf == LagResponse(c, covar, 1, nm + 1, lag_t)
      trf == [i \in 1..NP |-> [re |-> c[nm + 1 + i], im |-> c[NP + nm + 1 + i]]]
  IN IF et
     THEN [k \in {"brf", "erf"} |->
             IF k = "brf" THEN brf ELSE [freq |-> fqs, comp |-> trf]]
     ELSE [k \in {"brf"} |-> brf]

\* params of mode 'ts' (lines 725-742)
TsParams(c, covar, nm, et, lag_t) ==
  LET brf == LagResponse(c, covar, 1, nm + 1, lag_t)
      erf == LagResponse(c, covar, nm + 1, 2 * nm + 1, lag_t)
  IN IF et
     THEN [k \in {"brf", "erf"} |-> IF k = "brf" THEN brf ELSE erf]
     ELSE [k \in {"brf"} |-> brf]

\* lines 567-627 and 679-744: fit, conditioning, reconstruction, bundle
FitAndFinish(a, r, dt, X, cols, dWL, nm, o) ==
  LET n == Len(X)
      Z == hstack(Ones(n), X)
      zcols == <<[kind |-> "one", idx |-> 0]>> \o cols
      p == Len(zcols)
      r1 == [r EXCEPT !.X = X, !.Z = Z, !.cols = zcols]
      fe == CurveFitError(n, p, Len(dWL))
  IN IF fe # "ok" THEN Raise(r1, fe)
     ELSE
       LET c == FitCoef(o.seed, p)
           covar == FitCovar(o.seed, p)
           sgl == SingularValues(o.sgl, Z)
           r2 == [r1 EXCEPT !.c = c, !.covar = covar, !.sgl = sgl,
                            !.warned = IllConditioned(sgl)]
           dWLc == Correction(X, c, dt)
           r3 == [r2 EXCEPT !.dWLc = dWLc]
       IN IF ~Broadcastable(Len(a.GW), Len(dWLc) + 1) THEN Raise(r3, "ValueError")
          ELSE
            LET WLc == Recenter(a.GW, Subtract(a.GW, dWLc))
                lag_t == Linspace(a.lag_h, Nlag(a.lag_h, Spd(a.tf)))
                params == IF r.et_method = "hals"
                          THEN HalsParams(c, covar, nm, IF r.et THEN Len(a.fqs) ELSE 0,
                                          r.et, a.fqs, lag_t)
                          ELSE TsParams(c, covar, nm, r.et, lag_t)
            IN [r3 EXCEPT !.outcome = "returned", !.WLc = WLc, !.params = params]

\* lines 527-565: design matrix of mode 'hals'
Hals(a, r, o) ==
  LET dt == Dt(a.tf)
      dBP == Deriv(a.BP, dt)
      dWL == Deriv(a.GW, dt)
      nlag == Nlag(a.lag_h, Spd(a.tf))
      n == Len(dBP)
      nm == nlag + 1
      v == LagMatrix(dBP, n, nm, -1)
  IN IF r.et
     THEN IF n > Len(a.tf) THEN Raise(r, "IndexError")
          ELSE LET u1 == HarmonicMatrix("cos", a.fqs, a.tf, n)
                   u2 == HarmonicMatrix("sin", a.fqs, a.tf, n)
               IN FitAndFinish(a, r, dt, hstack(hstack(v, u1), u2),
                               LagCols("bp", nm) \o HarmonicCols("cos", a.fqs)
                                 \o HarmonicCols("sin", a.fqs),
                               dWL, nm, o)
     ELSE FitAndFinish(a, r, dt, v, LagCols("bp", nm), dWL, nm, o)

\* the design with the tide derivative negated like the pressure derivative
TsDesign_TideNegated(a, r, o) ==
  LET dt == Dt(a.tf)
      dBP == Deriv(a.BP, dt)
      dWL == Deriv(a.GW, dt)
      nm == Nlag(a.lag_h, Spd(a.tf)) + 1
      n == Len(dBP)
      V == LagMatrix(dBP, n, nm, -1)
  IN IF r.et
     THEN LET dET == Deriv(a.ET, dt)
          IN IF Len(dET) < n THEN Raise(r, "IndexError")
             ELSE FitAndFinish(a, r, dt, hstack(V, LagMatrix(dET, n, nm, -1)),
                               LagCols("bp", nm) \o LagCols("et", nm), dWL, nm, o)
     ELSE FitAndFinish(a, r, dt, V, LagCols("bp", nm), dWL, nm, o)

\* lines 638-677: design matrix of mode 'ts'
TsDesign(a, r, o) ==
  LET dt == Dt(a.tf)
      dBP == Deriv(a.BP, dt)
      dWL == Deriv(a.GW, dt)
      nm == Nlag(a.lag_h, Spd(a.tf)) + 1
      n == Len(dBP)
      V == LagMatrix(dBP, n, nm, -1)
  IN IF r.et
     THEN LET dET == Deriv(a.ET, dt)
          IN IF Len(dET) < n THEN Raise(r, "IndexError")
             ELSE FitAndFinish(a, r, dt, hstack(V, LagMatrix(dET, n, nm, 1)),
                               LagCols("bp", nm) \o LagCols("et", nm), dWL, nm, o)
     ELSE FitAndFinish(a, r, dt, V, LagCols("bp", nm), dWL, nm, o)

\* mode 'ts' without the check of the length of ET
Ts_NoLengthCheck(a, r, o) ==
  IF r.et /\ a.ET = None THEN Raise(r, "ErrETMissing")
  ELSE TsDesign(a, r, o)

\* lines 630-744: mode 'ts'
Ts(a, r, o) ==
  IF r.et /\ a.ET = None THEN Raise(r, "ErrETMissing")
  ELSE IF r.et /\ Len(a.tf) # Len(a.ET) THEN Raise(r, "ErrETLength")
  ELSE TsDesign(a, r, o)

\* lines 513-746
regress_deconv(a, o) ==
  LET m == ResolveEt(a.ET, a.et_method)
      r == [NoResult EXCEPT !.et = m.et, !.et_method = m.et_method]
  IN IF IsIrregular(a.tf) THEN Raise(r, "ErrRegular")
     ELSE IF LengthMismatch(a.tf, a.GW, a.BP) THEN Raise(r, "ErrLength")
     ELSE IF m.et_method = "hals" THEN Hals(a, r, o)
     ELSE IF m.et_method = "ts" THEN Ts(a, r, o)
     ELSE Raise(r, "ErrMethod")

(***************************************************************************)
(* Analysis.harmonic_lsqr                                                  *)
(***************************************************************************)
NoFit ==
  [outcome |-> "pending", Phi |-> <<>>, theta |-> <<>>, residuals |-> <<>>,
   rank |-> -1, singular |-> <<>>, warned |-> FALSE, result |-> <<>>]

\* np.floor(tf[0]) in ticks: the whole days before the first sample
FloorDay(t) == (t \div TicksPerDay) * TicksPerDay

\* lines 403-410: cos at column 2j, sin at column 2j+1, ones in the last column
DesignPhi(tf, freqs) ==
  LET rel == [i \in 1..Len(tf) |-> tf[i] - FloorDay(tf[1])]
  IN [r \in 1..Len(tf) |-> [k \in 1..(2 * Len(freqs) + 1) |->
        IF k = 2 * Len(freqs) + 1 THEN <<1, 1>>
        ELSE IF k % 2 = 1 THEN Cos(freqs[(k + 1) \div 2], rel[r])
        ELSE Sin(freqs[k \div 2], rel[r])]]

\* residuals of np.linalg.lstsq: an empty array if the rank of Phi is below
\* its number of columns or if Phi has no more rows than columns
LstsqResiduals(Phi, rss) ==
  IF Rank(Phi) < Len(Phi[1]) \/ Len(Phi) <= Len(Phi[1]) THEN <<>> ELSE <<rss>>

\* the pair with the cosine coefficient as the real part
ComplexCoef_CosReal(theta) ==
  [j \in 1..((Len(theta) - 1) \div 2) |-> [re |-> theta[2 * j - 1], im |-> theta[2 * j]]]

\* line 426: theta[:-1:2]*1j + theta[1:-1:2]
ComplexCoef(theta) ==
  [j \in 1..((Len(theta) - 1) \div 2) |-> [re |-> theta[2 * j], im |-> theta[2 * j - 1]]]

\* lines 398-429
harmonic_lsqr(a, o) ==
  LET N == Len(a.data)
      Phi == DesignPhi(a.tf, a.freqs)
      theta == FitCoef(o.seed, Len(Phi[1]))
      residuals == LstsqResiduals(Phi, RInt(o.rss))
      singular == SingularValues(o.sgl, Phi)
      r1 == [NoFit EXCEPT !.Phi = Phi, !.theta = theta, !.residuals = residuals,
                          !.rank = Rank(Phi), !.singular = singular]
  IN IF residuals = <<>> THEN Raise(r1, "IndexError")
     ELSE [r1 EXCEPT !.outcome = "returned",
                     !.warned = IllConditioned(singular),
                     !.result = [freq |-> a.freqs, complex |-> ComplexCoef(theta),
                                 err_var |-> RDiv(residuals[1], RInt(N)),
                                 cond_num |-> singular,
                                 offset |-> theta[Len(theta)],
                                 y_model |-> dot(Phi, theta)]]

(***************************************************************************)
(* Analysis.lin_window_ovrlp                                               *)
(***************************************************************************)
NoDetrend ==
  [outcome |-> "pending", reg_times |-> <<>>, windows |-> <<>>, kept |-> {},
   y_detr |-> <<>>, counter |-> <<>>, y_detrend |-> <<>>]

\* a missing value (np.nan)
NaN == <<0, 0>>

isnan(v) == v[2] = 0

\* np.arange(start, stop, step) on rationals, step > 0
arange(start, stop, step) ==
  LET q == RDiv(RSub(stop, start), step)
      K == IF q[1] <= 0 THEN 0 ELSE (q[1] + q[2] - 1) \div q[2]
  IN [k \in 1..K |-> RAdd(start, RMul(RInt(k - 1), step))]

\* the step with one window too many per window length
Interval_Dense(length, n_ovrlp) == RDiv(length, RInt(n_ovrlp + 2))

\* line 467: length/(n_ovrlp+1)
Interval(length, n_ovrlp) == RDiv(length, RInt(n_ovrlp + 1))

\* the grid started one window length before the first sample
RegTimes_FromFirstSample(x, length, interval) ==
  arange(RSub(x[1], length), RAdd(x[Len(x)], length), interval)

\* line 469: np.arange(x[0]-(x[1]-x[0])-length, x[-1]+length, interval)
RegTimes(x, length, interval) ==
  arange(RSub(RSub(x[1], RSub(x[2], x[1])), length), RAdd(x[Len(x)], length), interval)

\* the window closed at both ends
WindowIndices_Closed(x, y, tt, length) ==
  {i \in 1..Len(x) :
     /\ ~RLess(x[i], RSub(tt, RDiv(length, RInt(2))))
     /\ ~RLess(RAdd(tt, RDiv(length, RInt(2))), x[i])
     /\ ~isnan(y[i])}

\* lines 471-473: the samples in (tt - length/2, tt + length/2] with a value
WindowIndices(x, y, tt, length) ==
  {i \in 1..Len(x) :
     /\ RLess(RSub(tt, RDiv(length, RInt(2))), x[i])
     /\ ~RLess(RAdd(tt, RDiv(length, RInt(2))), x[i])
     /\ ~isnan(y[i])}

\* np.sum of a vector over the samples of a window
SumOver(W, v) == RSum([i \in 1..Len(v) |-> IF i \in W THEN v[i] ELSE <<0, 1>>])

\* the products of two vectors on the samples of a window
Products(W, u, v) == [i \in 1..Len(u) |-> IF i \in W THEN RMul(u[i], v[i]) ELSE <<0, 1>>]

\* line 478: np.linalg.lstsq(A[i], y[i])[0] with A = [x, 1]: the least-squares
\* line, and the minimum-norm one when all times of the window coincide
LineFit(x, y, W) ==
  LET n == RInt(Cardinality(W))
      sx == SumOver(W, x)
      sy == SumOver(W, y)
      sxx == SumOver(W, Products(W, x, x))
      sxy == SumOver(W, Products(W, x, y))
      D == RSub(RMul(n, sxx), RMul(sx, sx))
  IN IF D[1] # 0
     THEN LET a == RDiv(RSub(RMul(n, sxy), RMul(sx, sy)), D)
          IN <<a, RDiv(RSub(sy, RMul(a, sx)), n)>>
     ELSE LET x0 == RDiv(sx, n)
              m == RDiv(RDiv(sy, n), RAdd(RMul(x0, x0), <<1, 1>>))
          IN <<RMul(m, x0), m>>

\* the detrend with the intercept of the line left in
Detrended_SlopeOnly(x, y, W, i) ==
  LET coe == LineFit(x, y, W)
  IN RSub(y[i], RMul(coe[1], x[i]))

\* line 480: y[i] - (coe[0]*x[i] + coe[1])
Detrended(x, y, W, i) ==
  LET coe == LineFit(x, y, W)
  IN RSub(y[i], RAdd(RMul(coe[1], x[i]), coe[2]))

\* the division without the replacement of the undefined entries
Average_NoFill(y_detr, counter) ==
  [i \in 1..Len(y_detr) |->
     IF counter[i] = 0 THEN NaN ELSE RDiv(y_detr[i], RInt(counter[i]))]

\* lines 487-492: sum/count, and 0 where no window contributed
Average(y_detr, counter) ==
  [i \in 1..Len(y_detr) |->
     IF counter[i] = 0 THEN <<0, 1>> ELSE RDiv(y_detr[i], RInt(counter[i]))]

\* lines 461-494; x and the window length are in days
lin_window_ovrlp(a) ==
  LET x == a.tf
      y == a.data
  IN IF Len(x) < 2 THEN Raise(NoDetrend, "IndexError")
     ELSE
       LET interval == Interval(a.length, a.n_ovrlp)
           reg_times == RegTimes(x, a.length, interval)
           windows == [k \in 1..Len(reg_times) |->
                         WindowIndices(x, y, reg_times[k], a.length)]
           kept == {k \in 1..Len(windows) : Cardinality(windows[k]) >= a.stopper}
           y_detr == [i \in 1..Len(y) |->
                        RSum([k \in 1..Len(windows) |->
                                IF k \in kept /\ i \in windows[k]
                                THEN Detrended(x, y, windows[k], i) ELSE <<0, 1>>])]
           counter == [i \in 1..Len(y) |->
                         Cardinality({k \in kept : i \in windows[k]})]
       IN [NoDetrend EXCEPT !.outcome = "returned", !.reg_times = reg_times,
                            !.windows = windows, !.kept = kept, !.y_detr = y_detr,
                            !.counter = counter,
                            !.y_detrend = Average(y_detr, counter)]

(***************************************************************************)
(* Export.export_GW_correct (src/hydrogeosines/view/ext/export.py)         *)
(***************************************************************************)
\* the dictionary handed to the exporter: the corrected series under 'WLc'
\* next to the entries of the bundle, as regress_deconv returned them
Results(WLc, params) ==
  [k \in {"WLc"} \cup DOMAIN params |-> IF k = "WLc" THEN WLc ELSE params[k]]

NoExport == [outcome |-> "pending", written |-> <<>>]

\* a table built from the named keys of an entry; a key that is absent
\* raises KeyError
HasKeys(entry, keys) == keys \subseteq DOMAIN entry

\* lines 39-110: the series file, the barometric file, then the tide file
\* in the lag or the frequency layout
export_GW_correct(results) ==
  LET r1 == [NoExport EXCEPT !.written = <<"GW_correct">>]
      r2 == [r1 EXCEPT !.written = r1.written \o <<"GW_correct_BRF">>]
      r3 == [r2 EXCEPT !.written = r2.written \o <<"GW_correct_ERF">>,
                       !.outcome = "returned"]
  IN IF ~HasKeys(results, {"WLc"}) THEN Raise(NoExport, "KeyError")
     ELSE IF ~HasKeys(results["brf"], {"lag", "irc", "brf"}) THEN Raise(r1, "KeyError")
     ELSE IF "erf" \notin DOMAIN results THEN [r2 EXCEPT !.outcome = "returned"]
     ELSE IF "lag" \in DOMAIN results["erf"]
       THEN IF HasKeys(results["erf"], {"lag", "irc", "brf"}) THEN r3
            ELSE Raise(r2, "KeyError")
     ELSE IF "freq" \in DOMAIN results["erf"]
       THEN IF HasKeys(results["erf"], {"freq", "components", "complex"}) THEN r3
            ELSE Raise(r2, "KeyError")
     ELSE Raise(r2, "Warning")

(***************************************************************************)
(* Arguments of the calls.                                                 *)
(***************************************************************************)
\* a time vector of n samples starting at 0: daily, half-daily, daily with
\* the last step doubled, daily with the first step one tick long (equal
\* after rounding), daily with the last step two ticks long (unequal)
TimeKinds == {"day", "half", "gap", "jit1", "jit2"}

Step(kind, i, n) ==
  CASE kind = "day" -> TicksPerDay
    [] kind = "half" -> TicksPerDay \div 2
    [] kind = "gap" -> IF i = n - 1 /\ n > 2 THEN 2 * TicksPerDay ELSE TicksPerDay
    [] kind = "jit1" -> IF i = 1 THEN TicksPerDay + 1 ELSE TicksPerDay
    [] kind = "jit2" -> IF i = n - 1 /\ n > 2 THEN TicksPerDay + 2 ELSE TicksPerDay

TimeVec(kind, n) == [i \in 1..n |-> ISum([k \in 1..(i - 1) |-> Step(kind, k, n)])]

\* a value series of n samples
Series(n, s) == [i \in 1..n |-> (s * i * i + i) % 5]

\* the lengths a series may have next to a time vector of L samples
LenChoices(L) == {L, 2, L + 1}

Methods == {"None", "hals", "ts", "fft"}

LagHours == {0, 24, 36}

FqsChoices == {<< <<1, 2>> >>, << <<1, 2>>, <<1, 1>> >>}

IsDeconvArgs(a) ==
  \E kind \in TimeKinds, L \in 2..MaxLen, s \in 0..MaxSeed, lag \in LagHours,
     m \in Methods, f \in FqsChoices :
    \E ng \in LenChoices(L), nb \in LenChoices(L), ne \in LenChoices(L) \cup {0} :
      a = [tf |-> TimeVec(kind, L), GW |-> Series(ng, s + 1), BP |-> Series(nb, s),
           ET |-> IF ne = 0 THEN None ELSE Series(ne, s + 2),
           lag_h |-> lag, et_method |-> m, fqs |-> f]

SglChoices == {<<1, 1>>, <<CondLimit, 1>>, <<CondLimit + 1, 1>>}

Oracles == [seed : 1..MaxCoefSeed, sgl : SglChoices]

\* harmonic_lsqr: half-daily or daily samples starting at day 0 or 1.5, and
\* frequencies whose phase is a whole number of eighth turns at every sample
HalsStarts == {0, 3 * (TicksPerDay \div 2)}

FreqChoices ==
  {<< <<1, 2>> >>, << <<1, 2>>, <<1, 1>> >>, << <<1, 2>>, <<1, 2>> >>, << <<0, 1>> >>,
   << <<1, 4>>, <<1, 2>> >>, << <<1, 2>>, <<1, 4>> >>}

IsHalsArgs(a) ==
  \E kind \in {"half", "day"}, t0 \in HalsStarts, N \in 2..MaxLen, s \in 0..MaxSeed,
     f \in FreqChoices :
    a = [tf |-> [i \in 1..N |-> t0 + TimeVec(kind, N)[i]], data |-> Series(N, s),
         freqs |-> f]

RssChoices == {0, 3}

HalsOracles == [seed : 1..MaxCoefSeed, sgl : SglChoices, rss : RssChoices]

\* lin_window_ovrlp: times in days, values on a line a*t + b or a series,
\* complete or with one missing value
Days(tf) == [i \in 1..Len(tf) |-> Norm(tf[i], TicksPerDay)]

Lines == {<<1, 0>>, <<-2, 3>>, <<0, 1>>}

OnLine(x, ab) == [i \in 1..Len(x) |-> RAdd(RMul(RInt(ab[1]), x[i]), RInt(ab[2]))]

WithGap(y, k) == [i \in 1..Len(y) |-> IF i = k THEN NaN ELSE y[i]]

DataChoices(x) ==
  {OnLine(x, ab) : ab \in Lines}
    \cup {[i \in 1..Len(x) |-> RInt(Series(Len(x), s)[i])] : s \in 0..MaxSeed}
    \cup {WithGap(OnLine(x, <<1, 0>>), k) : k \in {1, 2} \cap (1..Len(x))}
    \cup {WithGap([i \in 1..Len(x) |-> RInt(Series(Len(x), 1)[i])], k) :
             k \in {1, 2} \cap (1..Len(x))}

WindowLengths == {1, 2, 3}

Stoppers == {1, 2, 3}

Overlaps == {0, 1, 3}

IsDetrendArgs(a) ==
  \E kind \in {"day", "half", "gap"}, N \in 1..MaxLen, w \in WindowLengths,
     st \in Stoppers, ov \in Overlaps :
    \E y \in DataChoices(Days(TimeVec(kind, N))) :
      a = [tf |-> Days(TimeVec(kind, N)), data |-> y, length |-> RInt(w),
           stopper |-> st, n_ovrlp |-> ov]

(***************************************************************************)
(* The state machine: one call of one of the three functions, and the      *)
(* export of what regress_deconv returned.                                 *)
(***************************************************************************)
InitDeconv ==
  /\ op = "regress_deconv"
  /\ IsDeconvArgs(args)
  /\ ret = NoResult

InitHals ==
  /\ op = "harmonic_lsqr"
  /\ IsHalsArgs(args)
  /\ ret = NoFit

InitDetrend ==
  /\ op = "lin_window_ovrlp"
  /\ IsDetrendArgs(args)
  /\ ret = NoDetrend

Init == InitDeconv \/ InitHals \/ InitDetrend

CallDeconv ==
  /\ op = "regress_deconv"
  /\ ret.outcome = "pending"
  /\ \E o \in Oracles : ret' = regress_deconv(args, o)
  /\ UNCHANGED <<op, args>>

CallHals ==
  /\ op = "harmonic_lsqr"
  /\ ret.outcome = "pending"
  /\ \E o \in HalsOracles : ret' = harmonic_lsqr(args, o)
  /\ UNCHANGED <<op, args>>

CallDetrend ==
  /\ op = "lin_window_ovrlp"
  /\ ret.outcome = "pending"
  /\ ret' = lin_window_ovrlp(args)
  /\ UNCHANGED <<op, args>>

\* the result of a call of regress_deconv is handed to the exporter
CallExport ==
  /\ op = "regress_deconv"
  /\ ret.outcome = "returned"
  /\ op' = "export_GW_correct"
  /\ args' = [results |-> Results(ret.WLc, ret.params)]
  /\ ret' = export_GW_correct(args'.results)

Next == CallDeconv \/ CallHals \/ CallDetrend \/ CallExport

Spec == Init /\ [][Next]_vars

(***************************************************************************)
(* Properties of regress_deconv.                                           *)
(***************************************************************************)
Called == op = "regress_deconv" /\ ret.outcome # "pending"

Returned == Called /\ ret.outcome = "returned"

RoundedSteps(tf) == {Around6(tf[i + 1] - tf[i]) : i \in 1..(Len(tf) - 1)}

SameLengths == Len(args.tf) = Len(args.GW) /\ Len(args.GW) = Len(args.BP)

\* C1: a call with a regular time vector whose time, head and pressure
\* series do not all have the same length raises the 'same length' error
C1_UnequalLengthsRaise ==
  (Called /\ Cardinality(RoundedSteps(args.tf)) = 1 /\ ~SameLengths)
    => ret.outcome = "ErrLength"

\* C2: a call whose time steps differ after rounding to 6 decimals raises
\* the 'regularly sampled' error, whatever the other arguments are, and no
\* design matrix, fit, corrected series or bundle has been produced
C2_IrregularRaisesFirst ==
  (Called /\ Cardinality(RoundedSteps(args.tf)) > 1)
    => /\ ret.outcome = "ErrRegular"
       /\ ret.Z = <<>> /\ ret.c = <<>> /\ ret.WLc = <<>> /\ ret.params = <<>>

C2_Witness ==
  /\ Called /\ ret.outcome = "ErrRegular"
  /\ args.tf = <<0, TicksPerDay, 2 * TicksPerDay, 4 * TicksPerDay>>
  /\ args.et_method = "fft" /\ ~SameLengths

\* C3: in mode 'ts' a result is returned only if an Earth-tide series of the
\* length of the time vector was supplied; with ET missing or of another
\* length the call raises one of its descriptive errors and returns nothing
C3_TsNeedsMatchingET ==
  (Called /\ args.et_method = "ts")
    => /\ ret.outcome = "returned" => (args.ET # None /\ Len(args.ET) = Len(args.tf))
       /\ (args.ET = None \/ Len(args.ET) # Len(args.tf))
            => /\ ret.outcome \in {"ErrRegular", "ErrLength", "ErrETMissing", "ErrETLength"}
               /\ ret.WLc = <<>> /\ ret.params = <<>>

C3_Witness ==
  /\ Called /\ args.et_method = "ts" /\ ret.outcome = "ErrETLength"
  /\ args.ET # None /\ Len(args.ET) > Len(args.tf) /\ SameLengths

\* C4: the mean of the corrected head series equals the mean of the input
\* head series, in both modes and for any fitted coefficients
C4_RecenteringInvariant ==
  Returned => /\ Len(ret.WLc) = Len(args.GW)
              /\ RSum(ret.WLc) = RInt(ISum(args.GW))

C4_Witness ==
  /\ Returned /\ ret.et_method = "ts" /\ ret.et
  /\ \E i \in 1..Len(ret.dWLc) : ret.dWLc[i] # <<0, 1>>
  /\ \E i \in 1..Len(ret.WLc) : ret.WLc[i][2] # 1

\* the position in Z of the column of a driver at a lag (or frequency) index
ColIndex(kind, idx) ==
  CHOOSE k \in 1..Len(ret.cols) : ret.cols[k] = [kind |-> kind, idx |-> idx]

NumCols(kind) == Cardinality({k \in 1..Len(ret.cols) : ret.cols[k].kind = kind})

\* the drivers with a lag-domain response in the bundle, with their columns
LagDrivers ==
  IF ret.et_method = "ts" /\ "erf" \in DOMAIN ret.params
  THEN {<<"brf", "bp">>, <<"erf", "et">>}
  ELSE {<<"brf", "bp">>}

\* C5: in every returned bundle crf is the running sum of irf (crf[0] =
\* irf[0], crf[i] = crf[i-1] + irf[i], last crf = sum of irf) and irf holds
\* the fitted coefficients of the driver's lag columns in lag order
C5_CumulativeIsRunningSum ==
  Returned =>
    \A d \in LagDrivers :
      LET b == ret.params[d[1]]
          n == Len(b.irf)
      IN /\ n = NumCols(d[2]) /\ Len(b.crf) = n /\ n >= 1
         /\ b.crf[1] = b.irf[1]
         /\ \A i \in 2..n : b.crf[i] = b.crf[i - 1] + b.irf[i]
         /\ b.crf[n] = ISum(b.irf)
         /\ \A i \in 1..n : b.irf[i] = ret.c[ColIndex(d[2], i - 1)]

C5_Witness ==
  /\ Returned /\ ret.et_method = "ts" /\ ret.et
  /\ Len(ret.params["erf"].irf) >= 2
  /\ ret.params["erf"].crf[2] # ret.params["erf"].irf[2]
  /\ ret.params["brf"].crf[2] # ret.params["brf"].irf[2]

\* the variance of the sum of the coefficients of the first i lag columns of
\* a driver: variances plus twice the covariances below the diagonal
SumVariance(kind, i) ==
  LET col(a) == ColIndex(kind, a - 1)
  IN ISum([a \in 1..i |-> ret.covar[col(a)][col(a)]])
     + 2 * ISum([a \in 1..i |-> ISum([b \in 1..(a - 1) |-> ret.covar[col(a)][col(b)]])])

\* C6: the cumulative variance of a driver at lag i is the sum of the
\* diagonal of its own covariance block for coefficients 0..i plus twice the
\* sum of the entries strictly below the diagonal of that block; no
\* intercept or cross-driver entry takes part
C6_CumulativeVariance ==
  Returned =>
    \A d \in LagDrivers :
      LET b == ret.params[d[1]]
      IN /\ Len(b.crf_stdev) = NumCols(d[2])
         /\ \A i \in 1..Len(b.crf_stdev) : b.crf_stdev[i] = <<"sqrt", SumVariance(d[2], i)>>

C6_Witness ==
  /\ Returned /\ ret.et_method = "ts" /\ ret.et
  /\ Len(ret.params["erf"].crf_stdev) >= 2
  /\ ret.covar[ColIndex("et", 1)][ColIndex("et", 0)] # 0
  /\ ret.params["erf"].crf_stdev # ret.params["brf"].crf_stdev

\* the fitted contribution of the columns of the given kinds to the head
\* derivative, integrated: dt * running sum over the rows of Z
Integrated(kinds) ==
  LET ks == {k \in 1..Len(ret.cols) : ret.cols[k].kind \in kinds}
      contrib(r) == RSum([k \in 1..Len(ret.cols) |->
                            IF k \in ks THEN RMul(ret.Z[r][k], RInt(ret.c[k])) ELSE <<0, 1>>])
  IN [r \in 1..Len(ret.Z) |->
        RMul(Dt(args.tf), RSum([q \in 1..r |-> contrib(q)]))]

\* C7 as stated: in mode 'hals' only the lagged-pressure columns enter the
\* correction subtracted from the head series
C7_HalsCorrectsPressureOnly ==
  (Returned /\ ret.et_method = "hals" /\ SameLengths) => ret.dWLc = Integrated({"bp"})

\* C7 as amended: in mode 'hals' the correction is the integrated
\* contribution of every column but the intercept, the harmonic tide
\* columns included when tides are fitted; it is subtracted from the head
\* series with a zero for the first sample, up to the re-centering shift
C7_HalsCorrectsAllRegressors ==
  (Returned /\ ret.et_method = "hals") =>
    /\ ret.dWLc = Integrated({"bp", "cos", "sin"})
    /\ NumCols("et") = 0
    /\ ~ret.et => (NumCols("cos") = 0 /\ NumCols("sin") = 0)
    /\ ret.et => (NumCols("cos") = Len(args.fqs) /\ NumCols("sin") = Len(args.fqs))
    /\ LET pad == <<<<0, 1>>>> \o ret.dWLc
           off(i) == RSub(ret.WLc[i], RSub(RInt(args.GW[i]), pad[i]))
       IN \A i \in 1..Len(ret.WLc) : off(i) = off(1)

C7_Witness ==
  /\ Returned /\ ret.et_method = "hals" /\ ret.et
  /\ ret.dWLc # Integrated({"bp"})
  /\ ret.dWLc # Integrated({"cos", "sin"})

\* C8: whenever the singular values of Z are computed the warning is
\* emitted iff largest/smallest > 1e6 (strictly), and a call that warned
\* still returns the corrected series and the bundle
C8_WarningIffAndNonFatal ==
  (Called /\ ret.sgl # <<>>) =>
    /\ ret.warned <=> (ret.sgl[2] = 0 \/ ret.sgl[1] > CondLimit * ret.sgl[2])
    /\ ret.warned => ret.outcome = "returned"

(***************************************************************************)
(* Properties of harmonic_lsqr.                                            *)
(***************************************************************************)
HalsCalled == op = "harmonic_lsqr" /\ ret.outcome # "pending"

\* C9: a call whose design matrix has a condition number above 1e6, rank
\* deficient designs included, warns and still returns the complete result
C9_IllConditionedStillReturns ==
  (HalsCalled /\ (ret.singular[2] = 0 \/ ret.singular[1] > CondLimit * ret.singular[2]))
    => /\ ret.outcome = "returned"
       /\ ret.warned
       /\ DOMAIN ret.result = {"freq", "complex", "err_var", "cond_num", "offset", "y_model"}

(***************************************************************************)
(* Properties of lin_window_ovrlp.                                         *)
(***************************************************************************)
DetrendCalled == op = "lin_window_ovrlp" /\ ret.outcome # "pending"

\* the values lie on one line over the sample times, none missing
IsLinear(x, y) ==
  /\ \A i \in 1..Len(y) : ~isnan(y[i])
  /\ \A i \in 3..Len(y) :
       RMul(RSub(y[i], y[1]), RSub(x[2], x[1])) = RMul(RSub(y[2], y[1]), RSub(x[i], x[1]))

AllZero(v) == \A i \in 1..Len(v) : v[i] = <<0, 1>>

DetrendReturned == DetrendCalled /\ ret.outcome = "returned"

\* the surviving windows that hold sample i
Covering(i) == {k \in ret.kept : i \in ret.windows[k]}

\* the detrended values of sample i summed over the surviving windows
CoverSum(i) ==
  RSum([k \in 1..Len(ret.windows) |->
          IF k \in Covering(i)
          THEN Detrended(args.tf, args.data, ret.windows[k], i) ELSE <<0, 1>>])

\* what the claim says of the output: as long as the input, free of
\* undefined entries, sum/count where a surviving window covers the sample
\* and 0 where none does, a sample with a missing value being of that kind
GapFreeOutput ==
  /\ ret.outcome = "returned"
  /\ Len(ret.y_detrend) = Len(args.data)
  /\ \A i \in 1..Len(ret.y_detrend) :
       /\ ~isnan(ret.y_detrend[i])
       /\ Covering(i) # {}
            => ret.y_detrend[i] = RDiv(CoverSum(i), RInt(Cardinality(Covering(i))))
       /\ Covering(i) = {} => ret.y_detrend[i] = <<0, 1>>
       /\ isnan(args.data[i]) => Covering(i) = {}

C12_ZeroLagIsSimpleRegression ==
  (Called /\ args.lag_h = 0 /\ ret.Z # <<>>) =>
    /\ ret.cols[1] = [kind |-> "one", idx |-> 0]
    /\ ret.cols[2] = [kind |-> "bp", idx |-> 0]
    /\ NumCols("bp") = 1
    /\ \A k \in 3..Len(ret.cols) : ret.cols[k].kind \in {"cos", "sin", "et"}
    /\ ~ret.et => Len(ret.cols) = 2
    /\ (ret.et /\ ret.et_method = "hals") => Len(ret.cols) = 2 + 2 * Len(args.fqs)
    /\ (ret.et /\ ret.et_method = "ts") => Len(ret.cols) = 3
    /\ Len(ret.Z) = Len(args.BP) - 1
    /\ \A r \in 1..Len(ret.Z) :
         /\ Len(ret.Z[r]) = Len(ret.cols)
         /\ ret.Z[r][1] = <<1, 1>>
         /\ ret.Z[r][2] = RDiv(RInt(args.BP[r] - args.BP[r + 1]), Dt(args.tf))
    /\ Returned =>
         LET b == ret.params["brf"]
         IN /\ b.lag = <<<<0, 1>>>>
            /\ Len(b.irf) = 1
            /\ b.irf[1] = ret.c[2]
            /\ b.crf = b.irf

C12_Witness ==
  /\ Returned /\ args.lag_h = 0 /\ ~ret.et
  /\ Spd(args.tf) = 2
  /\ Len(ret.Z) >= 3
  /\ \E r \in 1..Len(ret.Z) : ret.Z[r][2] # ret.Z[1][2]
  /\ ret.params["brf"].irf[1] # 0

\* the derivative of a series at sample k (from 1), per day
DerivAt(S, k) == RDiv(RInt(S[k + 1] - S[k]), Dt(args.tf))

\* the number of lag steps of the call
LagSteps == (args.lag_h * Spd(args.tf)) \div 24

\* C17: in mode 'ts' the design matrix has one row per derivative sample and
\* 1 + 2*(nlag+1) columns: ones, then the nlag+1 pressure columns, then the
\* nlag+1 tide columns; at lag j the pressure column holds the negated
\* pressure derivative and the tide column the tide derivative of sample r-j
\* in row r, and 0 in the rows before j; the tidal response reported is the
\* coefficients of the tide columns in lag order
C17_TsCompositeMatrix ==
  (Called /\ ret.et_method = "ts" /\ ret.Z # <<>>) =>
    LET nm == LagSteps + 1
    IN /\ ret.et
       /\ Len(ret.Z) = Len(args.BP) - 1
       /\ SameLengths => Len(ret.Z) = Len(args.tf) - 1
       /\ \A r \in 1..Len(ret.Z) :
            /\ Len(ret.Z[r]) = 1 + 2 * nm
            /\ ret.Z[r][1] = <<1, 1>>
            /\ \A j \in 0..LagSteps :
                 /\ ret.Z[r][2 + j] =
                      IF r > j THEN RNeg(DerivAt(args.BP, r - j)) ELSE <<0, 1>>
                 /\ ret.Z[r][2 + nm + j] =
                      IF r > j THEN DerivAt(args.ET, r - j) ELSE <<0, 1>>
       /\ Returned =>
            /\ Len(ret.params["erf"].irf) = nm
            /\ \A j \in 0..LagSteps :
                 /\ ret.params["erf"].irf[j + 1] = ret.c[2 + nm + j]
                 /\ ret.params["brf"].irf[j + 1] = ret.c[2 + j]

C17_Witness ==
  /\ Returned /\ ret.et_method = "ts"
  /\ LagSteps >= 1
  /\ \E r \in 1..Len(ret.Z) :
       /\ ret.Z[r][2 + LagSteps + 2][1] # 0
       /\ ret.Z[r][3][1] # 0
       /\ ret.Z[r][2 + LagSteps + 2] # RNeg(ret.Z[r][2 + LagSteps + 2])
  /\ ret.Z[1][3] = <<0, 1>> /\ ret.Z[1][2 + LagSteps + 2] = <<0, 1>>
  /\ ret.params["erf"].irf # ret.params["brf"].irf

\* C18: in every returned bundle the lag axis is as long as the
\* instantaneous response and its entry k is the delay of lag column k,
\* k sample intervals in hours (k*24/spd), at every maximum lag and
\* sampling rate
C18_LagAxisIsColumnDelay ==
  Returned =>
    \A d \in LagDrivers :
      LET b == ret.params[d[1]]
      IN /\ Len(b.lag) = Len(b.irf)
         /\ \A k \in 0..(Len(b.lag) - 1) : b.lag[k + 1] = Norm(k * 24, Spd(args.tf))

\* C19: in mode 'hals' the complex tide coefficients follow the convention
\* of harmonic_lsqr: one per frequency in frequency order, the real part
\* the coefficient of the sine column of the frequency and the imaginary
\* part the coefficient of its cosine column
C19_HalsComplexConvention ==
  (Returned /\ ret.et_method = "hals" /\ ret.et) =>
    LET comp == ret.params["erf"].comp
    IN /\ Len(comp) = Len(args.fqs)
       /\ ret.params["erf"].freq = args.fqs
       /\ \A i \in 1..Len(comp) :
            /\ comp[i].re = ret.c[ColIndex("sin", i - 1)]
            /\ comp[i].im = ret.c[ColIndex("cos", i - 1)]

\* both the Earth-tide series and the mode were omitted
BothOmitted == args.ET = None /\ args.et_method = "None"

\* the mode the call works in: 'hals' when both were omitted, else as given
ResolvedMode == IF BothOmitted THEN "hals" ELSE args.et_method

\* C21: tides are left out (no 'erf' entry) iff both the Earth-tide series
\* and the mode are omitted, and the mode is then 'hals'; a result is
\* returned only in mode 'hals' or 'ts'; any other mode, an omitted mode
\* with a supplied Earth-tide series included, raises the 'available Earth
\* tide methods' error once the regularity and length checks are passed,
\* and returns nothing
C21_ModeResolution ==
  Called =>
    /\ ret.et_method = ResolvedMode
    /\ ret.et <=> ~BothOmitted
    /\ Returned =>
         /\ ResolvedMode \in {"hals", "ts"}
         /\ "erf" \notin DOMAIN ret.params <=> BothOmitted
         /\ "brf" \in DOMAIN ret.params
    /\ ResolvedMode \notin {"hals", "ts"} =>
         /\ ret.outcome \in {"ErrRegular", "ErrLength", "ErrMethod"}
         /\ ret.outcome = "ErrMethod" => Cardinality(RoundedSteps(args.tf)) = 1
         /\ (Cardinality(RoundedSteps(args.tf)) = 1 /\ SameLengths)
              => ret.outcome = "ErrMethod"
         /\ ret.Z = <<>> /\ ret.c = <<>> /\ ret.WLc = <<>> /\ ret.params = <<>>
    /\ ret.outcome = "ErrMethod" => ResolvedMode \notin {"hals", "ts"}

C21_Witness ==
  /\ Called /\ ret.outcome = "ErrMethod"
  /\ args.et_method = "None" /\ args.ET # None
  /\ SameLengths /\ Len(args.ET) = Len(args.tf) /\ Len(args.tf) >= 4

(***************************************************************************)
(* Further properties of harmonic_lsqr.                                    *)
(***************************************************************************)
HalsReturned == HalsCalled /\ ret.outcome = "returned"

\* the sample times relative to the start of the day of the first sample
RelTime(r) == args.tf[r] - FloorDay(args.tf[1])

\* C13: for F frequencies the design matrix has 2F+1 columns, the cosine of
\* frequency j in column 2j, its sine in column 2j+1 (counted from 0) and
\* ones in the last column; a returned result holds F complex coefficients
\* in the order of the frequencies, with the fitted sine coefficient as real
\* part and the fitted cosine coefficient as imaginary part, and the
\* coefficient of the last column as offset
C13_DesignAndComplexLayout ==
  HalsCalled =>
    LET F == Len(args.freqs)
    IN /\ Len(ret.Phi) = Len(args.tf)
       /\ \A r \in 1..Len(ret.Phi) :
            /\ Len(ret.Phi[r]) = 2 * F + 1
            /\ ret.Phi[r][2 * F + 1] = <<1, 1>>
            /\ \A j \in 1..F :
                 /\ ret.Phi[r][2 * j - 1] = Cos(args.freqs[j], RelTime(r))
                 /\ ret.Phi[r][2 * j] = Sin(args.freqs[j], RelTime(r))
       /\ Len(ret.theta) = 2 * F + 1
       /\ HalsReturned =>
            /\ ret.result.freq = args.freqs
            /\ Len(ret.result.complex) = F
            /\ \A j \in 1..F :
                 /\ ret.result.complex[j].re = ret.theta[2 * j]
                 /\ ret.result.complex[j].im = ret.theta[2 * j - 1]
            /\ ret.result.offset = ret.theta[2 * F + 1]

C13_Witness ==
  /\ HalsReturned
  /\ Len(args.freqs) = 2 /\ args.freqs[1] # args.freqs[2]
  /\ args.tf[1] > TicksPerDay
  /\ ret.result.complex[1] # ret.result.complex[2]
  /\ \A j \in 1..2 : ret.result.complex[j].re # ret.result.complex[j].im
  /\ ret.result.offset # 0

(***************************************************************************)
(* Properties of export_GW_correct.                                        *)
(***************************************************************************)
Exported == op = "export_GW_correct"

\* C14: every field the exporter reads from the barometric or tidal entry
\* is one regress_deconv produced under that name, so the export of a
\* returned bundle completes without a missing key
C14_ExportReadsProducedFields ==
  Exported =>
    /\ ret.outcome = "returned"
    /\ HasKeys(args.results["brf"], {"lag", "irc", "brf"})
    /\ ("erf" \in DOMAIN args.results /\ "lag" \in DOMAIN args.results["erf"])
         => HasKeys(args.results["erf"], {"lag", "irc", "brf"})
    /\ ("erf" \in DOMAIN args.results /\ "lag" \notin DOMAIN args.results["erf"])
         => HasKeys(args.results["erf"], {"freq", "components", "complex"})

(***************************************************************************)
(* Further properties of lin_window_ovrlp.                                 *)
(***************************************************************************)
FirstTime == args.tf[1]

LastTime == args.tf[Len(args.tf)]

GridStep == RDiv(args.length, RInt(args.n_ovrlp + 1))

\* the centers are length/(overlap+1) apart, all below the last sample time
\* plus one window length, and none is left out below that bound
RegularGridToEnd ==
  /\ Len(ret.reg_times) >= 1
  /\ \A k \in 1..(Len(ret.reg_times) - 1) :
       RSub(ret.reg_times[k + 1], ret.reg_times[k]) = GridStep
  /\ \A k \in 1..Len(ret.reg_times) :
       RLess(ret.reg_times[k], RAdd(LastTime, args.length))
  /\ ~RLess(RAdd(ret.reg_times[Len(ret.reg_times)], GridStep),
            RAdd(LastTime, args.length))

HalfLength == RDiv(args.length, RInt(2))

\* the samples with a value around center k: from center - length/2 to
\* center + length/2, each end counted in or out
Within(k, lowIn, highIn) ==
  LET lo == RSub(ret.reg_times[k], HalfLength)
      hi == RAdd(ret.reg_times[k], HalfLength)
  IN {i \in 1..Len(args.tf) :
        /\ ~isnan(args.data[i])
        /\ RLess(lo, args.tf[i]) \/ (lowIn /\ args.tf[i] = lo)
        /\ RLess(args.tf[i], hi) \/ (highIn /\ args.tf[i] = hi)}

\* the windows are those sample sets; a window is fitted and adds to the
\* sums and counts of its samples iff it holds at least stopper samples
FittedByStopper(lowIn, highIn) ==
  LET K == Len(ret.reg_times)
      fit == {k \in 1..K : Cardinality(Within(k, lowIn, highIn)) >= args.stopper}
  IN /\ Len(ret.windows) = K
     /\ \A k \in 1..K : ret.windows[k] = Within(k, lowIn, highIn)
     /\ ret.kept = fit
     /\ \A i \in 1..Len(args.tf) :
          /\ ret.counter[i] = Cardinality({k \in fit : i \in Within(k, lowIn, highIn)})
          /\ ret.y_detr[i] =
               RSum([k \in 1..K |->
                       IF k \in fit /\ i \in Within(k, lowIn, highIn)
                       THEN Detrended(args.tf, args.data, Within(k, lowIn, highIn), i)
                       ELSE <<0, 1>>])

\* C16 as stated: the sample set of a window is every sample with a value
\* whose time lies within length/2 of the center, both boundaries treated
\* alike; the window contributes to exactly those samples iff the set has at
\* least stopper samples, and otherwise changes nothing
C16_WindowBoundariesAlike ==
  DetrendReturned => (FittedByStopper(TRUE, TRUE) \/ FittedByStopper(FALSE, FALSE))

\* C16 as amended: the same with the sample set taken over the half-open
\* interval (center - length/2, center + length/2]: a sample exactly
\* length/2 before the center is left out, one exactly length/2 after it
\* is taken in
C16_WindowHalfOpen ==
  DetrendReturned => FittedByStopper(FALSE, TRUE)

C16_Witness ==
  /\ DetrendReturned
  /\ \E k \in ret.kept :
       /\ Within(k, TRUE, FALSE) \ ret.windows[k] # {}
       /\ ret.windows[k] \ Within(k, TRUE, FALSE) # {}
  /\ \E k \in 1..Len(ret.windows) : k \notin ret.kept /\ ret.windows[k] # {}
  /\ \E i \in 1..Len(args.data) : isnan(args.data[i])
  /\ \E i \in 1..Len(args.data) : ret.y_detr[i] # <<0, 1>>

\* the centers of the grid whose window holds the time of sample i
Candidates(i) ==
  {k \in 1..Len(ret.reg_times) :
     /\ RLess(RSub(ret.reg_times[k], HalfLength), args.tf[i])
     /\ ~RLess(RAdd(ret.reg_times[k], HalfLength), args.tf[i])}

\* C20: every sample with a value lies in exactly overlap+1 windows of the
\* grid before the stopper is applied, so its contribution count is at most
\* overlap+1, and is overlap+1 when the stopper discards none of them
C20_OverlapPlusOneWindows ==
  DetrendReturned =>
    \A i \in 1..Len(args.tf) :
      ~isnan(args.data[i]) =>
        /\ Cardinality(Candidates(i)) = args.n_ovrlp + 1
        /\ \A k \in Candidates(i) : i \in ret.windows[k]
        /\ ret.counter[i] <= args.n_ovrlp + 1
        /\ Candidates(i) \subseteq ret.kept => ret.counter[i] = args.n_ovrlp + 1

C20_Witness ==
  /\ DetrendReturned
  /\ args.n_ovrlp = 3
  /\ \E i \in 1..Len(args.tf) : ret.counter[i] = 4
  /\ \E i \in 1..Len(args.tf) :
       ~isnan(args.data[i]) /\ ret.counter[i] > 0 /\ ret.counter[i] < 4
  /\ \E i \in 1..Len(args.tf) : isnan(args.data[i])
  /\ RSub(args.tf[Len(args.tf)], args.tf[Len(args.tf) - 1]) = <<2, 1>>

====
